---- MODULE Spec2Model ----
(***************************************************************************)
(* Model of the two maintenance scripts of the repository:                 *)
(*                                                                         *)
(*   app/fix_builtup.py           reads add-inventory.tsx, replaces the    *)
(*                                block that follows start_marker with     *)
(*                                new_code and writes the file back;       *)
(*   app/reconstruct_inventory.py overwrites add-inventory.tsx with the    *)
(*                                literal code.                            *)
(*                                                                         *)
(* Text is a sequence of tokens.  A token stands for a piece of text whose *)
(* presence the scripts test (or for "any other text"):                    *)
(*   "M"  start_marker                                                     *)
(*   "U"  the text  useEffect(() => {                                      *)
(*   "F"  the text  fetchSystemData                                        *)
(*   "sp" indentation, "x" any other text, "nl" the line terminator.       *)
(* A line is a string with at most one "nl", at its end.  The content of   *)
(* the file is one string; readlines splits it, writelines concatenates.   *)
(***************************************************************************)
EXTENDS Integers, Sequences, FiniteSets, TLC

VARIABLES
    file,          \* content of filepath on disk
    pc,            \* "idle": no script is running; "scan": fix_builtup.py is in its loop
    lines,         \* fix_builtup.py: lines
    i,             \* fix_builtup.py: position of the loop "for line in lines" (1-based)
    new_lines,     \* fix_builtup.py: new_lines
    skip,          \* fix_builtup.py: skip
    found_marker,  \* fix_builtup.py: found_marker
    payload,       \* the text inserted after the marker line (new_code)
    out,           \* what the scripts printed on standard output
    hist,          \* how each finished run of a script ended, in order
    io             \* the reads and writes of filepath by the runs, in order

vars == <<file, pc, lines, i, new_lines, skip, found_marker, payload, out, hist, io>>

(***************************************************************************)
(* Bounds of the model.                                                    *)
(***************************************************************************)
MaxLines == 4      \* number of lines of the initial document
MaxRuns == 2       \* number of script runs in one behaviour

(***************************************************************************)
(* Text.                                                                   *)
(***************************************************************************)
start_marker == "M"
useEffectOpen == "U"
fetchSystemData == "F"

\* "tok in s" of Python, for the three texts the scripts look for
Contains(tok, s) == \E k \in 1..Len(s) : s[k] = tok

\* the line "    useEffect(() => {\n"
end_marker == <<"sp", "U", "nl">>

\* the line that holds start_marker
markerLine == <<"sp", "M", "nl">>

\* a line with none of the three texts
plainLine == <<"sp", "x", "nl">>

\* a line that opens an effect on one line, e.g.
\* "    useEffect(() => { fetchLocLookup(...) }, []);\n"
inlineEffectLine == <<"sp", "U", "x", "nl">>

\* "        const fetchSystemData = async () => {\n"
fetchDeclLine == <<"sp", "x", "F", "x", "nl">>

\* "        fetchSystemData();\n"
fetchCallLine == <<"sp", "F", "x", "nl">>

RECURSIVE Concat(_)
\* f.writelines(ls) / "".join(ls): the strings of ls one after the other
Concat(ls) == IF ls = <<>> THEN <<>> ELSE Head(ls) \o Concat(Tail(ls))

\* position of the first "nl" of s, or 0
FirstNl(s) ==
    IF Contains("nl", s)
    THEN CHOOSE k \in 1..Len(s) : s[k] = "nl" /\ \A j \in 1..(k - 1) : s[j] # "nl"
    ELSE 0

RECURSIVE readlines(_)
\* f.readlines(): every line keeps its terminator; a last line without one is kept too
readlines(s) ==
    IF s = <<>> THEN <<>>
    ELSE IF FirstNl(s) = 0 THEN <<s>>
    ELSE <<SubSeq(s, 1, FirstNl(s))>> \o readlines(SubSeq(s, FirstNl(s) + 1, Len(s)))

\* new_code: two useEffect blocks.  Every line that holds one of the three
\* texts is kept; each maximal run of other lines is one plainLine.
new_code == Concat(<<end_marker, plainLine, end_marker, plainLine>>)

\* code of reconstruct_inventory.py, reduced the same way (at the right, the
\* line of reconstruct_inventory.py each kept line is on)
code ==
    Concat(<<plainLine,           \*   6..274
             inlineEffectLine,    \* 275
             plainLine,           \* 276
             end_marker,          \* 277
             plainLine,
             end_marker,          \* 282
             plainLine,
             end_marker,          \* 287
             plainLine,
             end_marker,          \* 293
             plainLine,
             end_marker,          \* 298
             plainLine,
             markerLine,          \* 305
             end_marker,          \* 306
             plainLine,
             end_marker,          \* 320
             plainLine,
             end_marker,          \* 333
             fetchDeclLine,       \* 334
             plainLine,
             fetchCallLine,       \* 352
             plainLine>>)         \* 353..516

(***************************************************************************)
(* Messages.                                                               *)
(***************************************************************************)
MsgUpdated == "Successfully updated the file."
MsgNotFound == "Could not find the start marker."

(***************************************************************************)
(* Initial documents.                                                      *)
(***************************************************************************)
LineAlphabet == {markerLine, end_marker, inlineEffectLine, fetchDeclLine, plainLine}

Docs == UNION {[1..n -> LineAlphabet] : n \in 0..MaxLines}

\* a document, with or without the terminator of its last line
Contents ==
    {Concat(d) : d \in Docs} \cup
    {SubSeq(Concat(d), 1, Len(Concat(d)) - 1) : d \in Docs \ {<<>>}}

\* a payload that itself holds a region end: a useEffect line followed by a
\* fetchSystemData line
\* (its useEffect line is indented deeper than any line of the initial documents)
payloadWithRegionEnd == Concat(<<<<"sp", "sp", "U", "nl">>, fetchDeclLine>>)

Payloads == {new_code, payloadWithRegionEnd}

(***************************************************************************)
(* fix_builtup.py                                                          *)
(***************************************************************************)
\* lines.index(line): the first position whose text equals line (1-based)
index(ls, line) ==
    CHOOSE k \in 1..Len(ls) : ls[k] = line /\ \A j \in 1..(k - 1) : ls[j] # line

\* the subscript of line 54 is out of range: IndexError
LookaheadFails(ls, line) == index(ls, line) + 1 > Len(ls)

\* "fetchSystemData" in lines[lines.index(line)+1]
LookaheadHasFetch(ls, line) == Contains(fetchSystemData, ls[index(ls, line) + 1])

\* (changed) the marker line is copied, the payload is forgotten
AppendMarkerOnly(nl, line, pay) == Append(nl, line)

\* new_lines.append(line); new_lines.append(new_code)
AppendMarker(nl, line, pay) == nl \o <<line, pay>>

\* (changed) new_lines.insert(0, line)
InsertLineFirst(nl, line) == <<line>> \o nl

\* new_lines.append(line)
AppendLine(nl, line) == Append(nl, line)

\* with open(filepath, "r") / f.readlines() by the run in progress
ReadEvent == [run |-> Len(hist) + 1, op |-> "read", data |-> file]

\* with open(filepath, "w") / f.writelines or f.write of the text s
WriteEvent(s) == [run |-> Len(hist) + 1, op |-> "write", data |-> s]

\* lines 5-15: read the file, initialise the scan
ReadFile ==
    /\ pc = "idle"
    /\ Len(hist) < MaxRuns
    /\ lines' = readlines(file)
    /\ new_lines' = <<>>
    /\ skip' = FALSE
    /\ found_marker' = FALSE
    /\ i' = 1
    /\ pc' = "scan"
    /\ io' = Append(io, ReadEvent)
    /\ UNCHANGED <<file, payload, out, hist>>

\* lines 46-58: one iteration of the loop
ScanStep ==
    /\ pc = "scan"
    /\ i <= Len(lines)
    /\ LET line == lines[i] IN
       IF Contains(start_marker, line)
       THEN /\ new_lines' = AppendMarker(new_lines, line, payload)
            /\ skip' = TRUE
            /\ found_marker' = TRUE
            /\ i' = i + 1
            /\ UNCHANGED <<pc, hist>>
       ELSE IF skip /\ Contains(useEffectOpen, line) /\ LookaheadFails(lines, line)
       THEN \* uncaught IndexError: the run ends here
            /\ pc' = "idle"
            /\ hist' = Append(hist, "IndexError")
            /\ UNCHANGED <<new_lines, skip, found_marker, i>>
       ELSE LET ends == skip /\ Contains(useEffectOpen, line)
                             /\ LookaheadHasFetch(lines, line)
                skip2 == IF ends THEN FALSE ELSE skip
            IN /\ skip' = skip2
               /\ new_lines' = IF skip2 THEN new_lines ELSE AppendLine(new_lines, line)
               /\ i' = i + 1
               /\ UNCHANGED <<found_marker, pc, hist>>
    /\ UNCHANGED <<file, lines, payload, out, io>>

\* (changed) the write is not guarded by found_marker
WriteBackUnguarded ==
    /\ pc = "scan"
    /\ i > Len(lines)
    /\ file' = Concat(new_lines)
    /\ io' = Append(io, WriteEvent(Concat(new_lines)))
    /\ out' = Append(out, MsgUpdated)
    /\ hist' = Append(hist, "updated")
    /\ pc' = "idle"
    /\ UNCHANGED <<lines, i, new_lines, skip, found_marker, payload>>

\* lines 60-63
WriteBack ==
    /\ pc = "scan"
    /\ i > Len(lines)
    /\ found_marker
    /\ file' = Concat(new_lines)
    /\ io' = Append(io, WriteEvent(Concat(new_lines)))
    /\ out' = Append(out, MsgUpdated)
    /\ hist' = Append(hist, "updated")
    /\ pc' = "idle"
    /\ UNCHANGED <<lines, i, new_lines, skip, found_marker, payload>>

\* lines 64-65
ReportNotFound ==
    /\ pc = "scan"
    /\ i > Len(lines)
    /\ ~found_marker
    /\ out' = Append(out, MsgNotFound)
    /\ hist' = Append(hist, "notfound")
    /\ pc' = "idle"
    /\ UNCHANGED <<file, lines, i, new_lines, skip, found_marker, payload, io>>

(***************************************************************************)
(* reconstruct_inventory.py                                                *)
(***************************************************************************)
\* (changed) the file is opened with "a" instead of "w"
ReconstructAppend ==
    /\ pc = "idle"
    /\ Len(hist) < MaxRuns
    /\ file' = file \o code
    /\ io' = Append(io, WriteEvent(code))
    /\ hist' = Append(hist, "reconstructed")
    /\ UNCHANGED <<pc, lines, i, new_lines, skip, found_marker, payload, out>>

\* lines 519-520: the whole script; its only print is inside the literal
Reconstruct ==
    /\ pc = "idle"
    /\ Len(hist) < MaxRuns
    /\ file' = code
    /\ io' = Append(io, WriteEvent(code))
    /\ hist' = Append(hist, "reconstructed")
    /\ UNCHANGED <<pc, lines, i, new_lines, skip, found_marker, payload, out>>

(***************************************************************************)
(* Specifications.                                                         *)
(***************************************************************************)
InitLocals ==
    /\ pc = "idle"
    /\ lines = <<>>
    /\ i = 1
    /\ new_lines = <<>>
    /\ skip = FALSE
    /\ found_marker = FALSE
    /\ out = <<>>
    /\ hist = <<>>
    /\ io = <<>>

Init ==
    /\ file \in Contents
    /\ payload = new_code
    /\ InitLocals

\* the block replacer with the payload as a parameter
InitPayload ==
    /\ file \in Contents
    /\ payload \in Payloads
    /\ InitLocals

Next ==
    \/ ReadFile
    \/ ScanStep
    \/ WriteBack
    \/ ReportNotFound
    \/ Reconstruct

Spec == Init /\ [][Next]_vars

SpecPayload == InitPayload /\ [][Next]_vars

TypeOK ==
    /\ pc \in {"idle", "scan"}
    /\ skip \in BOOLEAN
    /\ found_marker \in BOOLEAN
    /\ i \in 1..(Len(lines) + 1)
    /\ Len(hist) <= MaxRuns

(***************************************************************************)
(* Vocabulary of the properties.                                           *)
(***************************************************************************)
Last(s) == s[Len(s)]

FixOutcomes == {"updated", "notfound", "IndexError"}

\* the locals lines, new_lines, ... are those of a run of fix_builtup.py
\* that has finished
FixEnded == pc = "idle" /\ hist # <<>> /\ Last(hist) \in FixOutcomes

\* the loop is over, line 60 is next
ScanDone == pc = "scan" /\ i > Len(lines)

MarkerPositions == {k \in 1..Len(lines) : Contains(start_marker, lines[k])}

\* the region-end rule: line k holds "useEffect(() => {" and line k+1
\* holds "fetchSystemData"
RegionEndRule(k) ==
    /\ k < Len(lines)
    /\ Contains(useEffectOpen, lines[k])
    /\ Contains(fetchSystemData, lines[k + 1])

EndPositionsAfter(m) == {k \in (m + 1)..Len(lines) : RegionEndRule(k)}

Min(S) == CHOOSE k \in S : \A j \in S : k <= j

\* new_lines without the inserted payload elements
Stripped == SelectSeq(new_lines, LAMBDA e : e # payload)

PayloadCount == Cardinality({k \in 1..Len(new_lines) : new_lines[k] = payload})

RECURSIVE IsSubseq(_, _)
\* s is t with some elements left out
IsSubseq(s, t) ==
    IF s = <<>> THEN TRUE
    ELSE IF t = <<>> THEN FALSE
    ELSE IF Head(s) = Head(t) THEN IsSubseq(Tail(s), Tail(t))
    ELSE IsSubseq(s, Tail(t))

\* the lines the loop has gone through
Processed == SubSeq(lines, 1, i - 1)

(***************************************************************************)
(* C1  Exact splice.  When the scan of a document with exactly one marker  *)
(* line and a region-end line after it is over, new_lines is: the lines up *)
(* to and including the marker line, the payload, the lines from the first *)
(* region-end line on.                                                     *)
(***************************************************************************)
ExactSplice ==
    (ScanDone /\ Cardinality(MarkerPositions) = 1
              /\ EndPositionsAfter(Min(MarkerPositions)) # {})
    => new_lines = SubSeq(lines, 1, Min(MarkerPositions)) \o <<payload>>
                   \o SubSeq(lines, Min(EndPositionsAfter(Min(MarkerPositions))), Len(lines))

(***************************************************************************)
(* C2  Identity on not-found.  In a run on a document without a marker     *)
(* line the file keeps its content, every line gone through is copied,     *)
(* and the run ends with new_lines = lines and the not-found message.      *)
(***************************************************************************)
NotFoundIdentity ==
    ((pc = "scan" \/ FixEnded) /\ MarkerPositions = {})
    => /\ file = Concat(lines)
       /\ ~found_marker
       /\ pc = "scan" => new_lines = Processed
       /\ FixEnded => /\ new_lines = lines
                      /\ Last(hist) = "notfound"
                      /\ out # <<>> /\ Last(out) = MsgNotFound

NotFoundIdentityWitness ==
    /\ FixEnded
    /\ MarkerPositions = {}
    /\ Len(lines) >= 3
    /\ \E k \in 1..Len(lines) : RegionEndRule(k)
    /\ Last(hist) = "notfound"

(***************************************************************************)
(* C3  All or nothing.  A finished run of the block replacer either found  *)
(* a marker, wrote the complete new document and printed the success       *)
(* message, or found none, left the file alone and printed the not-found   *)
(* message.                                                                *)
(***************************************************************************)
AllOrNothing ==
    FixEnded =>
       \/ /\ found_marker
          /\ Last(hist) = "updated"
          /\ file = Concat(new_lines)
          /\ out # <<>> /\ Last(out) = MsgUpdated
       \/ /\ ~found_marker
          /\ Last(hist) = "notfound"
          /\ file = Concat(lines)
          /\ out # <<>> /\ Last(out) = MsgNotFound

(***************************************************************************)
(* C4  First match wins.  The payload is inserted at most once, however    *)
(* many lines hold the marker.                                             *)
(***************************************************************************)
FirstMatchWins == pc = "scan" => PayloadCount <= 1

(***************************************************************************)
(* C5  Region end is local.  A line met while skipping (not a marker line) *)
(* ends skip mode exactly when it holds "useEffect(() => {" and the line   *)
(* right after it holds "fetchSystemData".                                 *)
(***************************************************************************)
RegionEndLocal ==
    [][(pc = "scan" /\ i <= Len(lines) /\ skip /\ ~Contains(start_marker, lines[i]))
       => (skip' = FALSE <=> RegionEndRule(i))]_vars

(***************************************************************************)
(* C6  Resume point.  While skipping, a line for which the region-end rule *)
(* holds is copied and ends skip mode, any other line that is not a marker *)
(* line is dropped; while copying, every such line is copied.              *)
(***************************************************************************)
ResumePoint ==
    [][(pc = "scan" /\ i <= Len(lines) /\ ~Contains(start_marker, lines[i]))
       => IF skip /\ ~RegionEndRule(i)
          THEN new_lines' = new_lines
          ELSE new_lines' = Append(new_lines, lines[i]) /\ skip' = FALSE]_vars

TwoStateToggle ==
    [][/\ (pc = "idle" /\ pc' = "scan") => skip' = FALSE
       /\ (pc = "scan" /\ skip' # skip)
          => /\ i <= Len(lines)
             /\ \/ ~skip /\ Contains(start_marker, lines[i])
                \/ skip /\ RegionEndRule(i)]_vars

(***************************************************************************)
(* C9  Full rewrite.  After a run of reconstruct_inventory.py the file is  *)
(* exactly code, whatever it held before.                                  *)
(***************************************************************************)
FullRewrite == (hist # <<>> /\ Last(hist) = "reconstructed") => file = code

FullRewriteWitness ==
    /\ hist = <<"updated", "reconstructed">>
    /\ Concat(new_lines) # code
    /\ file = code

(***************************************************************************)
(* C10  No idempotence in general.  With a payload that holds a region     *)
(* end, a second successful run of the block replacer right after a first  *)
(* one never writes back what it read.                                     *)
(***************************************************************************)
TwiceUpdated ==
    /\ pc = "idle"
    /\ Len(hist) >= 2
    /\ hist[Len(hist)] = "updated"
    /\ hist[Len(hist) - 1] = "updated"

SecondRunDiffers ==
    (payload = payloadWithRegionEnd /\ TwiceUpdated) => file # Concat(lines)

SecondRunDiffersWitness ==
    /\ payload = payloadWithRegionEnd
    /\ TwiceUpdated
    /\ Cardinality(MarkerPositions) = 1
    /\ Len(file) > Len(Concat(lines))

(***************************************************************************)
(* File operations of one run.                                             *)
(***************************************************************************)
\* the reads and writes of run r, in order
RunEvents(r) == SelectSeq(io, LAMBDA e : e.run = r)

\* the number of the run of fix_builtup.py whose locals are in the state
FixRun == IF pc = "scan" THEN Len(hist) + 1 ELSE Len(hist)

(***************************************************************************)
(* C11  I/O ordering.  A run of the block replacer reads the file once,    *)
(* before the scan; during the scan there is no write; a finished run has  *)
(* written once, the whole of new_lines, exactly when a marker was found.  *)
(***************************************************************************)
IoOrdering ==
    /\ pc = "scan"
       => RunEvents(FixRun) = <<[run |-> FixRun, op |-> "read", data |-> Concat(lines)]>>
    /\ FixEnded
       => RunEvents(FixRun) =
             <<[run |-> FixRun, op |-> "read", data |-> Concat(lines)]>>
             \o (IF found_marker
                 THEN <<[run |-> FixRun, op |-> "write", data |-> Concat(new_lines)]>>
                 ELSE <<>>)

(***************************************************************************)
(* C12  Missing boundary.  In a run on a document with one marker line and *)
(* no region-end line after it, the scan skips from the marker line to the *)
(* end, new_lines is the lines up to the marker line and the payload, and  *)
(* the run writes that document and prints the success message.            *)
(***************************************************************************)
TruncatedDocument == SubSeq(lines, 1, Min(MarkerPositions)) \o <<payload>>

MissingBoundary ==
    ((pc = "scan" \/ FixEnded) /\ Cardinality(MarkerPositions) = 1
                               /\ EndPositionsAfter(Min(MarkerPositions)) = {})
    => /\ (pc = "scan" /\ i > Min(MarkerPositions)) => skip
       /\ ScanDone => new_lines = TruncatedDocument
       /\ FixEnded => /\ Last(hist) = "updated"
                      /\ file = Concat(TruncatedDocument)
                      /\ out # <<>> /\ Last(out) = MsgUpdated

(***************************************************************************)
(* C13  The scan never fails.  Whenever the region-end test of line 54     *)
(* looks ahead, the position it reads is a line of the document, and no    *)
(* run ends with an IndexError.                                            *)
(***************************************************************************)
ScanNeverFails ==
    /\ (pc = "scan" /\ i <= Len(lines) /\ skip
           /\ ~Contains(start_marker, lines[i])
           /\ Contains(useEffectOpen, lines[i]))
       => index(lines, lines[i]) + 1 <= Len(lines)
    /\ \A k \in 1..Len(hist) : hist[k] # "IndexError"

(***************************************************************************)
(* C14  Composition.  A run of fix_builtup.py right after a run of         *)
(* reconstruct_inventory.py reads code, finds the marker, and writes the   *)
(* lines up to the marker line, the payload, and every line from the       *)
(* useEffect line that precedes fetchSystemData to the end.                *)
(***************************************************************************)
AfterReconstruct ==
    /\ FixEnded
    /\ Len(hist) >= 2
    /\ hist[Len(hist) - 1] = "reconstructed"

SplicedDocument ==
    SubSeq(lines, 1, Min(MarkerPositions)) \o <<payload>>
    \o SubSeq(lines, Min(EndPositionsAfter(Min(MarkerPositions))), Len(lines))

CompositionKeepsTail ==
    AfterReconstruct
    => /\ lines = readlines(code)
       /\ Last(hist) = "updated"
       /\ new_lines = SplicedDocument
       /\ file = Concat(SplicedDocument)

(***************************************************************************)
(* C15  Idempotence with the shipped payload.  When the document read by   *)
(* the first of two successive successful runs has exactly one marker line *)
(* and a region-end line after it, the second run writes the file the      *)
(* first run wrote.                                                        *)
(***************************************************************************)
\* the lines the run before the last one read
FirstRead == readlines(RunEvents(Len(hist) - 1)[1].data)

\* the text the run before the last one wrote
FirstWritten == RunEvents(Len(hist) - 1)[2].data

MarkersOf(ls) == {k \in 1..Len(ls) : Contains(start_marker, ls[k])}

RegionEndsAfter(ls, m) ==
    {k \in (m + 1)..(Len(ls) - 1) :
        Contains(useEffectOpen, ls[k]) /\ Contains(fetchSystemData, ls[k + 1])}

IdempotentShipped ==
    (/\ payload = new_code
     /\ TwiceUpdated
     /\ Cardinality(MarkersOf(FirstRead)) = 1
     /\ RegionEndsAfter(FirstRead, Min(MarkersOf(FirstRead))) # {})
    => file = FirstWritten
====
